---- MODULE Spec2Model ----
(***************************************************************************)
(* Flow-diagram pipeline of mulesoft-docgen:                                *)
(*   src/mulesoft-docgen/src/generator/flow_visualizer.py                   *)
(* FlowVisualizer.generate_flow_diagram, _sanitize_id, _escape_text,        *)
(* generate_flow_visualization and generate_visualization.                  *)
(*                                                                         *)
(* A Python str is a sequence of one-character strings, so that the        *)
(* character-level conversions (re.sub, str.replace, f-strings, "\n".join) *)
(* are computed and not assumed.                                           *)
(***************************************************************************)
EXTENDS Integers, Sequences, FiniteSets, TLC

VARIABLES
    interface,        \* per call: the interface argument
    output_dir,       \* per call: the output_dir argument of generate_visualization
    pc,               \* per call: position in the code
    caller,           \* per call: which function was entered
    nodes,            \* per call: local set `nodes`
    links,            \* per call: local set `links`
    flow_references,  \* per call: local dict `flow_references`
    mermaid_diagram,  \* per call: local list `mermaid_diagram`
    result,           \* per call: value returned by generate_flow_diagram
    flow_data,        \* per call: local dict `flow_data` of generate_visualization
    paths,            \* per call: value returned by generate_visualization
    fs,               \* the output directory on disk
    runs,             \* per call: number of completed runs
    prev,             \* per call: what the previous completed run produced
    id_str,           \* argument of a stand-alone _sanitize_id application
    sanitized_out,    \* its returned value
    text_str,         \* argument of a stand-alone _escape_text application
    escaped_out       \* its returned value

vars == <<interface, output_dir, pc, caller, nodes, links, flow_references,
          mermaid_diagram, result, flow_data, paths, fs, runs, prev, id_str,
          sanitized_out, text_str, escaped_out>>

---------------------------------------------------------------------------
(* Bounds of the checked instances *)

MaxLen == 3      \* longest enumerated id string given to _sanitize_id
MaxFlows == 2    \* most flows in an interface without processors
MaxSize == 4     \* most flows and processors together in an interface with processors
MaxRuns == 2     \* runs of the pipeline on one interface
MaxPairSize == 2 \* most flows and processors together in an interface of two interleaved calls
MaxOrderSize == 4 \* most flows and processors together in an interface checked for order

---------------------------------------------------------------------------
(* Python values *)

\* None, as a value no sequence of characters equals
None == <<"<None>">>

\* bool(v) of a str / dict / None value: None and the empty value are falsy
Truthy(v) == v # None /\ v # <<>>

Lower == {"a","b","c","d","e","f","g","h","i","j","k","l","m",
          "n","o","p","q","r","s","t","u","v","w","x","y","z"}
Upper == {"A","B","C","D","E","F","G","H","I","J","K","L","M",
          "N","O","P","Q","R","S","T","U","V","W","X","Y","Z"}
Digit == {"0","1","2","3","4","5","6","7","8","9"}

\* a letter outside ASCII (for which str.isalpha() is true as well)
EAcute == "e\\u0301"

\* str.isalpha() of one character
isalpha(ch) == ch \in Lower \cup Upper \cup {EAcute}

\* the character class [a-zA-Z0-9_] of the pattern in _sanitize_id
WordChar == Lower \cup Upper \cup Digit \cup {"_"}

\* re.sub(r'[^a-zA-Z0-9_]', '_', s)
re_sub(s) == [k \in 1..Len(s) |-> IF s[k] \in WordChar THEN s[k] ELSE "_"]

\* str.replace(old, new) for a one-character `old`
RECURSIVE replace(_, _, _)
replace(s, old, new) ==
    IF s = <<>> THEN <<>>
    ELSE (IF Head(s) = old THEN new ELSE <<Head(s)>>) \o replace(Tail(s), old, new)

unknown == <<"u","n","k","n","o","w","n">>
UnnamedFlow == <<"U","n","n","a","m","e","d"," ","F","l","o","w">>

\* a variant of _sanitize_id that tests the first character of the argument
\* instead of the substituted text
sanitize_id_raw_first(s) ==
    IF ~Truthy(s) THEN unknown
    ELSE LET sanitized == re_sub(s)
         IN  IF sanitized # <<>> /\ ~isalpha(s[1])
             THEN <<"f","_">> \o sanitized
             ELSE sanitized

\* a variant of _sanitize_id that returns the substituted text without prefix
sanitize_id_no_prefix(s) ==
    IF ~Truthy(s) THEN unknown ELSE re_sub(s)

\* a variant of _sanitize_id that prepends "f_" whatever the first character
sanitize_id_always_prefix(s) ==
    IF ~Truthy(s) THEN unknown ELSE <<"f","_">> \o re_sub(s)

\* FlowVisualizer._sanitize_id
_sanitize_id(s) ==
    IF ~Truthy(s) THEN unknown
    ELSE LET sanitized == re_sub(s)
         IN  IF sanitized # <<>> /\ ~isalpha(sanitized[1])
             THEN <<"f","_">> \o sanitized
             ELSE sanitized

\* _escape_text without the replacement of the backslash (line 155)
escape_text_backslash_kept(text) ==
    IF ~Truthy(text) THEN UnnamedFlow
    ELSE LET e1 == replace(text, "\"", <<>>)
             e2 == replace(e1, "[", <<"(">>)
             e3 == replace(e2, "]", <<")">>)
             e4 == replace(e3, "<", <<"(">>)
             e5 == replace(e4, ">", <<")">>)
         IN  replace(e5, "&", <<"+">>)

\* FlowVisualizer._escape_text
_escape_text(text) ==
    IF ~Truthy(text) THEN UnnamedFlow
    ELSE LET e1 == replace(text, "\"", <<>>)
             e2 == replace(e1, "[", <<"(">>)
             e3 == replace(e2, "]", <<")">>)
             e4 == replace(e3, "<", <<"(">>)
             e5 == replace(e4, ">", <<")">>)
             e6 == replace(e5, "&", <<"+">>)
         IN  replace(e6, "\\", <<"/">>)

---------------------------------------------------------------------------
(* String literals of flow_visualizer.py *)

GraphTD == <<"g","r","a","p","h"," ","T","D">>
NoFlowsFound == <<"A","[","N","o"," ","f","l","o","w","s"," ","f","o","u","n","d","]">>
StylePrefix == <<"s","t","y","l","e"," ">>
SubflowStyle == <<" ","f","i","l","l",":","#","e","1","f","5","f","e",",","s","t","r","o","k","e",":","#","0","2","7","7","b","d">>
SourceStyle == <<" ","f","i","l","l",":","#","e","8","f","5","e","9",",","s","t","r","o","k","e",":","#","2","e","7","d","3","2">>
RegularStyle == <<" ","f","i","l","l",":","#","f","9","f","9","f","9",",","s","t","r","o","k","e",":","#","3","3","3">>
Arrow == <<" ","-","-",">"," ">>
NL == "\n"
static_flow_diagram_mmd == <<"s","t","a","t","i","c","/","f","l","o","w","_","d","i","a","g","r","a","m",".","m","m","d">>
static_flow_data_json == <<"s","t","a","t","i","c","/","f","l","o","w","_","d","a","t","a",".","j","s","o","n">>

\* "\n".join(lines)
RECURSIVE join(_)
join(lines) ==
    IF lines = <<>> THEN <<>>
    ELSE IF Len(lines) = 1 THEN lines[1]
    ELSE lines[1] \o <<NL>> \o join(Tail(lines))

---------------------------------------------------------------------------
(* Flow and processor records as the code reads them.                      *)
(*   shape    "obj" (attribute-bearing object) or "dict"                    *)
(*   absent   the attributes (keys, for a dict) the record does not have    *)
(*   none     the attributes whose value is None                            *)
(* For a dict-shaped flow, is_subflow stands for  type == 'sub-flow'.       *)

\* hasattr(x, a): a dict has none of these attributes
hasattr(x, a) == x.shape = "obj" /\ a \notin x.absent

\* getattr(flow, 'name', flow.id)
getattr_name(flow) == IF hasattr(flow, "name") THEN flow.name ELSE flow.id

\* lines 54-65 with the source test first
node_style_source_first(flow) ==
    IF hasattr(flow, "source") /\ Truthy(flow.source) THEN "source"
    ELSE IF hasattr(flow, "is_subflow") /\ flow.is_subflow THEN "subflow"
    ELSE "regular"

\* lines 54, 58, 62: which of the three branches draws the node
node_style(flow) ==
    IF hasattr(flow, "is_subflow") /\ flow.is_subflow THEN "subflow"
    ELSE IF hasattr(flow, "source") /\ Truthy(flow.source) THEN "source"
    ELSE "regular"

\* lines 56-57, 60-61, 64-65 with the style line appended before the node line
node_lines_style_first(flow, flow_id) ==
    LET label == _escape_text(getattr_name(flow))
        style == node_style(flow)
    IN  IF style = "subflow"
        THEN << StylePrefix \o flow_id \o SubflowStyle,
                flow_id \o <<"[">> \o label \o <<"]">> >>
        ELSE IF style = "source"
        THEN << StylePrefix \o flow_id \o SourceStyle,
                flow_id \o <<"(">> \o label \o <<")">> >>
        ELSE << StylePrefix \o flow_id \o RegularStyle,
                flow_id \o <<"[">> \o label \o <<"]">> >>

\* lines 56-57, 60-61, 64-65: the two lines appended for a new node
node_lines(flow, flow_id) ==
    LET label == _escape_text(getattr_name(flow))
        style == node_style(flow)
    IN  IF style = "subflow"
        THEN << flow_id \o <<"[">> \o label \o <<"]">>,
                StylePrefix \o flow_id \o SubflowStyle >>
        ELSE IF style = "source"
        THEN << flow_id \o <<"(">> \o label \o <<")">>,
                StylePrefix \o flow_id \o SourceStyle >>
        ELSE << flow_id \o <<"[">> \o label \o <<"]">>,
                StylePrefix \o flow_id \o RegularStyle >>

\* line 44 reduced to `not hasattr(flow, 'id')`
skipped_absent_only(flow) == ~hasattr(flow, "id")

\* lines 44-45 and 71-72: the flow is skipped
skipped(flow) == ~hasattr(flow, "id") \/ ~Truthy(flow.id)

\* the first loop without the `if flow_id in nodes: continue` of lines 50-51
node_step_no_dedup(st, flow) ==
    IF skipped(flow) THEN st
    ELSE LET flow_id == _sanitize_id(flow.id)
         IN  [nodes |-> st.nodes \cup {flow_id},
              lines |-> st.lines \o node_lines(flow, flow_id)]

\* lines 44-67: one iteration of the first loop; st = [nodes, lines]
node_step(st, flow) ==
    IF skipped(flow) THEN st
    ELSE LET flow_id == _sanitize_id(flow.id)
         IN  IF flow_id \in st.nodes THEN st
             ELSE [nodes |-> st.nodes \cup {flow_id},
                   lines |-> st.lines \o node_lines(flow, flow_id)]

\* lines 43-67: the first loop
RECURSIVE node_loop(_, _)
node_loop(st, flows) ==
    IF flows = <<>> THEN st
    ELSE node_loop(node_step(st, Head(flows)), Tail(flows))

\* lines 80-87: the name a processor refers to, None if it is no flow-ref
ref_flow_name(processor) ==
    IF hasattr(processor, "type") /\ processor.type = "flow-ref"
    THEN IF hasattr(processor, "config") /\ processor.config.hasname
         THEN processor.config.name
         ELSE IF hasattr(processor, "name") THEN processor.name ELSE None
    ELSE None

\* lines 89-98 without the `if link not in links` of line 95
processor_step_no_dedup(st, flow_id, known, processor) ==
    LET name == ref_flow_name(processor)
        ref_flow_id == _sanitize_id(name)
        link == flow_id \o Arrow \o ref_flow_id
    IN  IF Truthy(name) /\ ref_flow_id \in known
        THEN [links |-> st.links \cup {link},
              lines |-> Append(st.lines, link),
              references |-> Append(st.references, name)]
        ELSE st

\* lines 89-98 without the `if ref_flow_id in nodes` of line 93
processor_step_unknown_kept(st, flow_id, known, processor) ==
    LET name == ref_flow_name(processor)
        ref_flow_id == _sanitize_id(name)
        link == flow_id \o Arrow \o ref_flow_id
    IN  IF Truthy(name) /\ link \notin st.links
        THEN [links |-> st.links \cup {link},
              lines |-> Append(st.lines, link),
              references |-> Append(st.references, name)]
        ELSE st

\* lines 89-98 with the reference put in front of the list (line 98)
processor_step_prepend(st, flow_id, known, processor) ==
    LET name == ref_flow_name(processor)
        ref_flow_id == _sanitize_id(name)
        link == flow_id \o Arrow \o ref_flow_id
    IN  IF Truthy(name) /\ ref_flow_id \in known /\ link \notin st.links
        THEN [links |-> st.links \cup {link},
              lines |-> Append(st.lines, link),
              references |-> <<name>> \o st.references]
        ELSE st

\* lines 80-98: one iteration of the processor loop;
\* st = [links, lines, references], known = the set `nodes`
processor_step(st, flow_id, known, processor) ==
    LET name == ref_flow_name(processor)
        ref_flow_id == _sanitize_id(name)
        link == flow_id \o Arrow \o ref_flow_id
    IN  IF Truthy(name) /\ ref_flow_id \in known /\ link \notin st.links
        THEN [links |-> st.links \cup {link},
              lines |-> Append(st.lines, link),
              references |-> Append(st.references, name)]
        ELSE st

\* lines 79-98: the processor loop of one flow
RECURSIVE processor_loop(_, _, _, _)
processor_loop(st, flow_id, known, processors) ==
    IF processors = <<>> THEN st
    ELSE processor_loop(processor_step(st, flow_id, known, Head(processors)),
                        flow_id, known, Tail(processors))

\* a dict as the list of its items in insertion order: d[k] = v
dict_set(d, k, v) ==
    IF \E j \in 1..Len(d) : d[j].key = k
    THEN [j \in 1..Len(d) |-> IF d[j].key = k THEN [key |-> k, value |-> v] ELSE d[j]]
    ELSE Append(d, [key |-> k, value |-> v])

\* k in d
dict_has(d, k) == \E j \in 1..Len(d) : d[j].key = k

\* d[k]
dict_get(d, k) == d[CHOOSE j \in 1..Len(d) : d[j].key = k].value

\* `for processor in flow.processors` raises TypeError when processors is None
processors_raise(flow) ==
    ~skipped(flow) /\ hasattr(flow, "processors") /\ "processors" \in flow.none

\* lines 71-102 with line 102 run without the test of line 101
link_step_always_store(st, known, flow) ==
    IF skipped(flow) THEN st
    ELSE LET flow_id == _sanitize_id(flow.id)
             start == [links |-> st.links, lines |-> st.lines, references |-> <<>>]
             done == IF hasattr(flow, "processors")
                     THEN processor_loop(start, flow_id, known, flow.processors)
                     ELSE start
         IN  [links |-> done.links,
              lines |-> done.lines,
              refs |-> dict_set(st.refs, flow.id, done.references)]

\* lines 71-102: one iteration of the second loop;
\* st = [links, lines, refs], known = the set `nodes`
link_step(st, known, flow) ==
    IF skipped(flow) THEN st
    ELSE LET flow_id == _sanitize_id(flow.id)
             start == [links |-> st.links, lines |-> st.lines, references |-> <<>>]
             done == IF hasattr(flow, "processors")
                     THEN processor_loop(start, flow_id, known, flow.processors)
                     ELSE start
         IN  [links |-> done.links,
              lines |-> done.lines,
              refs |-> IF done.references # <<>>
                       THEN dict_set(st.refs, flow.id, done.references)
                       ELSE st.refs]

\* lines 70-102: the second loop
RECURSIVE link_loop(_, _, _)
link_loop(st, known, flows) ==
    IF flows = <<>> THEN st
    ELSE link_loop(link_step(st, known, Head(flows)), known, Tail(flows))

\* line 31 reduced to `not interface.flows`
no_flows_only_empty(itf) == itf.kind = "obj" /\ itf.flows = <<>>

\* line 31: the guard of the empty-input return
no_flows(itf) == itf.kind # "obj" \/ itf.flows = <<>>

\* line 32: the value returned for an empty input
NoFlowsResult == [diagram |-> GraphTD \o <<NL>> \o NoFlowsFound, references |-> <<>>]

\* lines 31-104: generate_flow_diagram(interface) run from entry to return
\* (defined where it does not raise)
generate_flow_diagram(itf) ==
    IF no_flows(itf) THEN NoFlowsResult
    ELSE LET first == node_loop([nodes |-> {}, lines |-> <<GraphTD>>], itf.flows)
             second == link_loop([links |-> {}, lines |-> first.lines, refs |-> <<>>],
                                 first.nodes, itf.flows)
         IN  [diagram |-> join(second.lines), references |-> second.refs]

---------------------------------------------------------------------------
(* generate_visualization: the node/link data of lines 209-249 *)

\* lines 219 and 224: flow.get('id', 'unknown') / getattr(flow, 'id', 'unknown')
viz_flow_id(flow) == IF "id" \in flow.absent THEN unknown ELSE flow.id

\* lines 220-221, 225-226 and 228-230: the node type string
viz_node_type(flow) ==
    LET is_subflow == IF "is_subflow" \in flow.absent THEN FALSE ELSE flow.is_subflow
        source == IF "source" \in flow.absent THEN None ELSE flow.source
        node_type == IF is_subflow THEN "subflow" ELSE "flow"
    IN  IF Truthy(source) THEN "source" ELSE node_type

\* lines 216-237: the loop over enumerate(interface.flows), i counted from 0;
\* st = [node_map, nodes]
RECURSIVE viz_node_loop(_, _, _)
viz_node_loop(st, i, flows) ==
    IF flows = <<>> THEN st
    ELSE LET flow == Head(flows)
             flow_id == viz_flow_id(flow)
         IN  viz_node_loop(
                 [node_map |-> dict_set(st.node_map, flow_id, i),
                  nodes |-> Append(st.nodes,
                                   [id |-> i, name |-> flow_id, type |-> viz_node_type(flow)])],
                 i + 1, Tail(flows))

\* lines 243-249 with source and target exchanged in the appended link
RECURSIVE viz_target_loop_swapped(_, _, _, _)
viz_target_loop_swapped(out, node_map, source_idx, targets) ==
    IF targets = <<>> THEN out
    ELSE LET target_id == Head(targets)
             next == IF dict_has(node_map, target_id)
                     THEN Append(out, [source |-> dict_get(node_map, target_id),
                                       target |-> source_idx])
                     ELSE out
         IN  viz_target_loop_swapped(next, node_map, source_idx, Tail(targets))

\* lines 243-249: the links of one source; out = the list flow_data["links"]
RECURSIVE viz_target_loop(_, _, _, _)
viz_target_loop(out, node_map, source_idx, targets) ==
    IF targets = <<>> THEN out
    ELSE LET target_id == Head(targets)
             next == IF dict_has(node_map, target_id)
                     THEN Append(out, [source |-> source_idx,
                                       target |-> dict_get(node_map, target_id)])
                     ELSE out
         IN  viz_target_loop(next, node_map, source_idx, Tail(targets))

\* lines 240-249: the loop over flow_references.items()
RECURSIVE viz_link_loop(_, _, _)
viz_link_loop(out, node_map, items) ==
    IF items = <<>> THEN out
    ELSE LET source_id == Head(items).key
             next == IF dict_has(node_map, source_id)
                     THEN viz_target_loop(out, node_map,
                                          dict_get(node_map, source_id), Head(items).value)
                     ELSE out
         IN  viz_link_loop(next, node_map, Tail(items))

\* lines 209-249: flow_data for an interface and the returned reference index
build_flow_data(itf, references) ==
    LET ns == viz_node_loop([node_map |-> <<>>, nodes |-> <<>>], 0, itf.flows)
    IN  [nodes |-> ns.nodes, links |-> viz_link_loop(<<>>, ns.node_map, references)]

\* line 216: interface.flows of None or of an object without flows raises
\* AttributeError, enumerate(None) raises TypeError
viz_raises(itf) == itf.kind # "obj"

---------------------------------------------------------------------------
(* The calls *)

Calls == {1, 2}

NoResult == [diagram |-> None, references |-> <<>>]
NoFlowData == [nodes |-> <<>>, links |-> <<>>]
NoPaths == [mermaid |-> None, d3 |-> None]
NoInterface == [kind |-> "None", flows |-> <<>>]
NoOutputDir == <<>>

\* the disk: the directories that exist, and the files as a dict from path
\* to content
EmptyDisk == [dirs |-> {}, files |-> <<>>]

static == <<"s","t","a","t","i","c">>

\* os.path.join(a, b) of a non-empty a and a relative b
os_path_join(a, b) == a \o <<"/">> \o b

\* os.makedirs without exist_ok
exist_ok_false == FALSE

\* line 202: exist_ok=True
exist_ok == TRUE

\* where control goes when generate_flow_diagram returns
after_return(c) == IF caller[c] = "generate_visualization" THEN "makedirs" ELSE "done"

\* lines 160-173: generate_flow_visualization(interface) entered by the caller
generate_flow_visualization(c) ==
    /\ pc[c] = "idle"
    /\ caller' = [caller EXCEPT ![c] = "generate_flow_visualization"]
    /\ pc' = [pc EXCEPT ![c] = "call"]
    /\ UNCHANGED <<interface, output_dir, nodes, links, flow_references, mermaid_diagram, result,
                   flow_data, paths, fs, runs, prev, id_str, sanitized_out,
                   text_str, escaped_out>>

\* lines 176-194: generate_visualization(interface, output_dir) entered
generate_visualization(c) ==
    /\ pc[c] = "idle"
    /\ caller' = [caller EXCEPT ![c] = "generate_visualization"]
    /\ pc' = [pc EXCEPT ![c] = "call"]
    /\ UNCHANGED <<interface, output_dir, nodes, links, flow_references, mermaid_diagram, result,
                   flow_data, paths, fs, runs, prev, id_str, sanitized_out,
                   text_str, escaped_out>>

\* lines 31-40 with the locals kept from the previous run (as if they were
\* attributes of a shared visualizer)
begin_locals_kept(c) ==
    /\ nodes' = nodes
    /\ links' = links
    /\ flow_references' = flow_references
    /\ mermaid_diagram' = [mermaid_diagram EXCEPT ![c] = Append(@, GraphTD)]

\* lines 34-40 with the two seen-sets kept in one registry for all calls
begin_locals_shared(c) ==
    /\ nodes' = [nodes EXCEPT ![c] = UNION { nodes[d] : d \in Calls }]
    /\ links' = [links EXCEPT ![c] = UNION { links[d] : d \in Calls }]
    /\ flow_references' = [flow_references EXCEPT ![c] = <<>>]
    /\ mermaid_diagram' = [mermaid_diagram EXCEPT ![c] = <<GraphTD>>]

\* lines 34-40: the fresh locals of one call
begin_locals(c) ==
    /\ nodes' = [nodes EXCEPT ![c] = {}]
    /\ links' = [links EXCEPT ![c] = {}]
    /\ flow_references' = [flow_references EXCEPT ![c] = <<>>]
    /\ mermaid_diagram' = [mermaid_diagram EXCEPT ![c] = <<GraphTD>>]

\* lines 31-40: generate_flow_diagram up to the first loop
Begin(c) ==
    /\ pc[c] = "call"
    /\ IF no_flows(interface[c])
       THEN /\ result' = [result EXCEPT ![c] = NoFlowsResult]
            /\ pc' = [pc EXCEPT ![c] = after_return(c)]
            /\ runs' = [runs EXCEPT ![c] = IF after_return(c) = "done" THEN @ + 1 ELSE @]
            /\ UNCHANGED <<nodes, links, flow_references, mermaid_diagram>>
       ELSE /\ begin_locals(c)
            /\ pc' = [pc EXCEPT ![c] = "nodes"]
            /\ UNCHANGED <<result, runs>>
    /\ UNCHANGED <<interface, output_dir, caller, flow_data, paths, fs, prev, id_str, sanitized_out,
                   text_str, escaped_out>>

\* lines 43-67 with each flow taken off interface.flows as it is visited
NodeLoop_consuming(c) ==
    /\ pc[c] = "nodes"
    /\ LET st == node_loop([nodes |-> nodes[c], lines |-> mermaid_diagram[c]],
                           interface[c].flows)
       IN  /\ nodes' = [nodes EXCEPT ![c] = st.nodes]
           /\ mermaid_diagram' = [mermaid_diagram EXCEPT ![c] = st.lines]
    /\ interface' = [interface EXCEPT ![c].flows = <<>>]
    /\ pc' = [pc EXCEPT ![c] = "links"]
    /\ UNCHANGED <<output_dir, caller, links, flow_references, result, flow_data, paths,
                   fs, runs, prev, id_str, sanitized_out,
                   text_str, escaped_out>>

\* lines 43-67: the first loop
NodeLoop(c) ==
    /\ pc[c] = "nodes"
    /\ LET st == node_loop([nodes |-> nodes[c], lines |-> mermaid_diagram[c]],
                           interface[c].flows)
       IN  /\ nodes' = [nodes EXCEPT ![c] = st.nodes]
           /\ mermaid_diagram' = [mermaid_diagram EXCEPT ![c] = st.lines]
    /\ pc' = [pc EXCEPT ![c] = "links"]
    /\ UNCHANGED <<interface, output_dir, caller, links, flow_references, result, flow_data, paths,
                   fs, runs, prev, id_str, sanitized_out,
                   text_str, escaped_out>>

\* lines 70-102: the second loop
LinkLoop(c) ==
    /\ pc[c] = "links"
    /\ IF \E k \in 1..Len(interface[c].flows) : processors_raise(interface[c].flows[k])
       THEN /\ pc' = [pc EXCEPT ![c] = "raised"]
            /\ UNCHANGED <<links, mermaid_diagram, flow_references>>
       ELSE LET st == link_loop([links |-> links[c], lines |-> mermaid_diagram[c],
                                 refs |-> flow_references[c]],
                                nodes[c], interface[c].flows)
            IN  /\ links' = [links EXCEPT ![c] = st.links]
                /\ mermaid_diagram' = [mermaid_diagram EXCEPT ![c] = st.lines]
                /\ flow_references' = [flow_references EXCEPT ![c] = st.refs]
                /\ pc' = [pc EXCEPT ![c] = "return"]
    /\ UNCHANGED <<interface, output_dir, caller, nodes, result, flow_data, paths, fs, runs, prev,
                   id_str, sanitized_out,
                   text_str, escaped_out>>

\* line 104: return "\n".join(mermaid_diagram), flow_references
Return(c) ==
    /\ pc[c] = "return"
    /\ result' = [result EXCEPT ![c] = [diagram |-> join(mermaid_diagram[c]),
                                        references |-> flow_references[c]]]
    /\ pc' = [pc EXCEPT ![c] = after_return(c)]
    /\ runs' = [runs EXCEPT ![c] = IF after_return(c) = "done" THEN @ + 1 ELSE @]
    /\ UNCHANGED <<interface, output_dir, caller, nodes, links, flow_references, mermaid_diagram,
                   flow_data, paths, fs, prev, id_str, sanitized_out,
                   text_str, escaped_out>>

\* lines 201-202: os.makedirs(static_dir, exist_ok=True) creates output_dir
\* and output_dir/static, or raises OSError
Makedirs(c) ==
    /\ pc[c] = "makedirs"
    /\ LET static_dir == os_path_join(output_dir[c], static)
       IN  \/ /\ exist_ok \/ static_dir \notin fs.dirs
              /\ fs' = [fs EXCEPT !.dirs = @ \cup {output_dir[c], static_dir}]
              /\ pc' = [pc EXCEPT ![c] = "write_mermaid"]
           \/ /\ pc' = [pc EXCEPT ![c] = "io_error"]
              /\ UNCHANGED fs
    /\ UNCHANGED <<interface, output_dir, caller, nodes, links, flow_references, mermaid_diagram,
                   result, flow_data, paths, runs, prev, id_str, sanitized_out,
                   text_str, escaped_out>>

\* lines 205-206: the diagram file is written; or open() fails; or the write
\* fails after open() has truncated the file
WriteMermaid(c) ==
    /\ pc[c] = "write_mermaid"
    /\ LET path == os_path_join(output_dir[c], static_flow_diagram_mmd)
       IN  \/ /\ fs' = [fs EXCEPT !.files = dict_set(@, path, result[c].diagram)]
              /\ pc' = [pc EXCEPT ![c] = "flow_data"]
           \/ /\ pc' = [pc EXCEPT ![c] = "io_error"]
              /\ UNCHANGED fs
           \/ /\ pc' = [pc EXCEPT ![c] = "io_error"]
              /\ fs' = [fs EXCEPT !.files = dict_set(@, path, <<>>)]
    /\ UNCHANGED <<interface, output_dir, caller, nodes, links, flow_references, mermaid_diagram,
                   result, flow_data, paths, runs, prev, id_str, sanitized_out,
                   text_str, escaped_out>>

\* lines 209-249: flow_data is built in memory
BuildFlowData(c) ==
    /\ pc[c] = "flow_data"
    /\ IF viz_raises(interface[c])
       THEN /\ pc' = [pc EXCEPT ![c] = "raised"]
            /\ UNCHANGED flow_data
       ELSE /\ flow_data' = [flow_data EXCEPT
                                ![c] = build_flow_data(interface[c], result[c].references)]
            /\ pc' = [pc EXCEPT ![c] = "write_d3"]
    /\ UNCHANGED <<interface, output_dir, caller, nodes, links, flow_references, mermaid_diagram,
                   result, paths, fs, runs, prev, id_str, sanitized_out,
                   text_str, escaped_out>>

\* a dict without the key k
dict_del(d, k) == SelectSeq(d, LAMBDA item : item.key # k)

\* lines 252-253 with a rollback: a failed write of the data file removes the
\* diagram file
WriteD3_rollback(c) ==
    /\ pc[c] = "write_d3"
    /\ LET path == os_path_join(output_dir[c], static_flow_data_json)
           written == os_path_join(output_dir[c], static_flow_diagram_mmd)
       IN  \/ /\ fs' = [fs EXCEPT !.files = dict_set(@, path, flow_data[c])]
              /\ pc' = [pc EXCEPT ![c] = "return_paths"]
           \/ /\ pc' = [pc EXCEPT ![c] = "io_error"]
              /\ fs' = [fs EXCEPT !.files = dict_del(@, written)]
    /\ UNCHANGED <<interface, output_dir, caller, nodes, links, flow_references, mermaid_diagram,
                   result, flow_data, paths, runs, prev, id_str, sanitized_out,
                   text_str, escaped_out>>

\* lines 252-253: the data file is written (the file is modelled by the
\* JSON document json.dump encodes); or open() fails; or the write fails after
\* open() has truncated the file
WriteD3(c) ==
    /\ pc[c] = "write_d3"
    /\ LET path == os_path_join(output_dir[c], static_flow_data_json)
       IN  \/ /\ fs' = [fs EXCEPT !.files = dict_set(@, path, flow_data[c])]
              /\ pc' = [pc EXCEPT ![c] = "return_paths"]
           \/ /\ pc' = [pc EXCEPT ![c] = "io_error"]
              /\ UNCHANGED fs
           \/ /\ pc' = [pc EXCEPT ![c] = "io_error"]
              /\ fs' = [fs EXCEPT !.files = dict_set(@, path, <<>>)]
    /\ UNCHANGED <<interface, output_dir, caller, nodes, links, flow_references, mermaid_diagram,
                   result, flow_data, paths, runs, prev, id_str, sanitized_out,
                   text_str, escaped_out>>

\* lines 255-258 returning the paths joined with output_dir
ReturnPaths_joined(c) ==
    /\ pc[c] = "return_paths"
    /\ paths' = [paths EXCEPT ![c] =
                     [mermaid |-> os_path_join(output_dir[c], static_flow_diagram_mmd),
                      d3 |-> os_path_join(output_dir[c], static_flow_data_json)]]
    /\ pc' = [pc EXCEPT ![c] = "done"]
    /\ runs' = [runs EXCEPT ![c] = @ + 1]
    /\ UNCHANGED <<interface, output_dir, caller, nodes, links, flow_references, mermaid_diagram,
                   result, flow_data, fs, prev, id_str, sanitized_out,
                   text_str, escaped_out>>

\* lines 255-258: return {"mermaid": mermaid_file, "d3": d3_file}
ReturnPaths(c) ==
    /\ pc[c] = "return_paths"
    /\ paths' = [paths EXCEPT ![c] = [mermaid |-> static_flow_diagram_mmd,
                                      d3 |-> static_flow_data_json]]
    /\ pc' = [pc EXCEPT ![c] = "done"]
    /\ runs' = [runs EXCEPT ![c] = @ + 1]
    /\ UNCHANGED <<interface, output_dir, caller, nodes, links, flow_references, mermaid_diagram,
                   result, flow_data, fs, prev, id_str, sanitized_out,
                   text_str, escaped_out>>

\* the caller runs the same entry point again on the same interface object
Again(c) ==
    /\ pc[c] = "done"
    /\ runs[c] < MaxRuns
    /\ prev' = [prev EXCEPT ![c] = [result |-> result[c], flow_data |-> flow_data[c],
                                    paths |-> paths[c], fs |-> fs]]
    /\ pc' = [pc EXCEPT ![c] = "call"]
    /\ UNCHANGED <<interface, output_dir, caller, nodes, links, flow_references, mermaid_diagram,
                   result, flow_data, paths, fs, runs, id_str, sanitized_out,
                   text_str, escaped_out>>

\* a stand-alone application of _sanitize_id
Sanitize ==
    /\ sanitized_out = None
    /\ sanitized_out' = _sanitize_id(id_str)
    /\ UNCHANGED <<interface, output_dir, pc, caller, nodes, links, flow_references, mermaid_diagram,
                   result, flow_data, paths, fs, runs, prev, id_str, text_str, escaped_out>>

\* a stand-alone application of _escape_text
Escape ==
    /\ escaped_out = None
    /\ escaped_out' = _escape_text(text_str)
    /\ UNCHANGED <<interface, output_dir, pc, caller, nodes, links, flow_references,
                   mermaid_diagram, result, flow_data, paths, fs, runs, prev, id_str,
                   sanitized_out, text_str>>

---------------------------------------------------------------------------
(* The inputs the instances are checked on *)

\* a Flow of model/interface.py (id, is_subflow, source, processors; no name)
Flow(id, sub, src, procs) ==
    [shape |-> "obj", absent |-> {"name"}, none |-> {}, id |-> id, name |-> None,
     is_subflow |-> sub, source |-> src, processors |-> procs]

\* an attribute-bearing processor with a flat name and no config
Processor(type, name) ==
    [shape |-> "obj", absent |-> {"config"}, type |-> type,
     config |-> [hasname |-> FALSE, name |-> None], name |-> name]

\* an attribute-bearing processor whose name sits in config.name
ConfigProcessor(type, name) ==
    [shape |-> "obj", absent |-> {"name"}, type |-> type,
     config |-> [hasname |-> TRUE, name |-> name], name |-> None]

\* a dict processor {"type": ..., "name": ...}, as the parser and the
\* example of lines 276-289 build them
DictProcessor(type, name) ==
    [shape |-> "dict", absent |-> {"config"}, type |-> type,
     config |-> [hasname |-> FALSE, name |-> None], name |-> name]

HttpSource == <<"h","t","t","p">>

\* flow ids: empty, and two that normalize to the same "f__"
Ids == { <<>>, <<"-">>, <<"_">> }

\* flow ids of the flows that carry processors
EdgeIds == { <<"a">>, <<"-">>, <<"_">> }

\* a raw flow id, a normalized spelling of it, an unknown name; and a
\* processor that is no flow-ref
Processors ==
    { Processor("flow-ref", t) : t \in { <<"-">>, <<"f","_","_">>, <<"z">> } }
        \cup { Processor("logger", <<"a">>) }

\* all sequences over S of length at most n
SeqsUpTo(S, n) == UNION { [1..m -> S] : m \in 0..n }

\* the processors of ps owned by flow k under the owner map o
owned(ps, o, k) ==
    LET idx == SelectSeq([j \in 1..Len(ps) |-> j], LAMBDA j : o[j] = k)
    IN  [m \in 1..Len(idx) |-> ps[idx[m]]]

\* interfaces whose flows differ in id and in the sub-flow and source signals
NodeInterfaces ==
    { [kind |-> "obj", flows |-> fl] :
        fl \in SeqsUpTo({ Flow(id, sub, src, <<>>) :
                            id \in Ids, sub \in BOOLEAN, src \in {None, HttpSource} },
                        MaxFlows) }

\* the maps giving each of m processors its flow among n, in flow order
Owners(n, m) ==
    { o \in [1..m -> 1..n] : \A j \in 1..(m - 1) : o[j] <= o[j + 1] }

\* interfaces of n plain flows that carry m processors between them
EdgeInterfacesOf(n, m) ==
    { [kind |-> "obj",
       flows |-> [k \in 1..n |-> Flow(ids[k], FALSE, None, owned(ps, o, k))]] :
        ids \in [1..n -> EdgeIds], ps \in [1..m -> Processors], o \in Owners(n, m) }

\* interfaces of plain flows with processors, flows and processors together
\* at most MaxSize
EdgeInterfaces ==
    UNION { EdgeInterfacesOf(nm[1], nm[2]) :
              nm \in { x \in (1..MaxSize) \X (0..MaxSize) : x[1] + x[2] <= MaxSize } }

\* no interface, an object without `flows`, and `flows` set to None
AbsentInterfaces ==
    { [kind |-> k, flows |-> <<>>] : k \in {"None", "noattr", "flowsNone"} }

Interfaces == AbsentInterfaces \cup NodeInterfaces \cup EdgeInterfaces

\* {"type": "logger", "message": ...}: a dict processor that is no flow-ref
DictLogger ==
    [shape |-> "dict", absent |-> {"config", "name"}, type |-> "logger",
     config |-> [hasname |-> FALSE, name |-> None], name |-> None]

\* the ways a flow-ref to `name` is written: flat name, config.name, dict
FlowRefs(name) ==
    { Processor("flow-ref", name), ConfigProcessor("flow-ref", name),
      DictProcessor("flow-ref", name) }

\* nothing, or one processor that is no flow-ref
Extras == { <<>>, <<DictLogger>> }

\* the collection [A (entry, invokes B), B (plain, invokes C), C (sub-flow),
\* D (plain)], as in the example of lines 276-289, in its representations
EndToEndInterfaces ==
    { [kind |-> "obj",
       flows |-> << Flow(<<"A">>, FALSE, HttpSource, <<ab>> \o xa),
                    Flow(<<"B">>, FALSE, None, <<bc>> \o xb),
                    Flow(<<"C">>, TRUE, None, xc),
                    Flow(<<"D">>, FALSE, None, <<>>) >>] :
        ab \in FlowRefs(<<"B">>), bc \in FlowRefs(<<"C">>),
        xa \in Extras, xb \in Extras, xc \in Extras }

\* an object given as a flow: the attributes in `absent` are missing, those
\* in `none` are None
FlowObject(absent, none, id, procs) ==
    [shape |-> "obj", absent |-> absent \cup {"name"}, none |-> none, id |-> id,
     name |-> None, is_subflow |-> FALSE, source |-> None, processors |-> procs]

\* a dict given as a flow: {"id": id, "processors": procs}
DictFlow(id, procs) ==
    [shape |-> "dict", absent |-> {"name", "is_subflow", "source"}, none |-> {},
     id |-> id, name |-> None, is_subflow |-> FALSE, source |-> None,
     processors |-> procs]

\* an object given as a processor: attributes type, config and name, those in
\* `absent` missing; config is an object with or without a name attribute
ProcessorObject(absent, type, hasname, config_name, name) ==
    [shape |-> "obj", absent |-> absent, type |-> type,
     config |-> [hasname |-> hasname, name |-> config_name], name |-> name]

\* processors that name the flow "B" in the flat name: without type, without
\* config and name, with a config that has no name, with a config whose name
\* is empty or None, with both names, and the two well-formed spellings
MalformedProcessors ==
    { ProcessorObject({"type", "config"}, "flow-ref", FALSE, None, <<"B">>),
      ProcessorObject({"config", "name"}, "flow-ref", FALSE, None, None),
      ProcessorObject({}, "flow-ref", FALSE, None, <<"B">>),
      ProcessorObject({}, "flow-ref", TRUE, <<>>, <<"B">>),
      ProcessorObject({}, "flow-ref", TRUE, None, <<"B">>),
      ProcessorObject({}, "flow-ref", TRUE, <<"B">>, <<"C">>),
      Processor("flow-ref", <<"B">>),
      ConfigProcessor("flow-ref", <<"B">>) }

\* a flow "A" with one processor, in the ways it can be malformed: without
\* id, with id None or empty, without processors, with processors None, without
\* is_subflow and source, as a dict, and well-formed
MalformedFlows(p) ==
    { FlowObject({"id"}, {}, None, <<p>>),
      FlowObject({}, {"id"}, None, <<p>>),
      FlowObject({}, {}, <<>>, <<p>>),
      FlowObject({"processors"}, {}, <<"A">>, <<>>),
      FlowObject({}, {"processors"}, <<"A">>, <<>>),
      FlowObject({"is_subflow", "source"}, {}, <<"A">>, <<p>>),
      DictFlow(<<"A">>, <<p>>),
      Flow(<<"A">>, FALSE, None, <<p>>) }

\* the collections [A, B] with a malformed A, and the absent interfaces
MalformedInterfaces ==
    AbsentInterfaces
        \cup { [kind |-> "obj", flows |-> <<f, Flow(<<"B">>, FALSE, None, <<>>)>>] :
                  f \in UNION { MalformedFlows(p) : p \in MalformedProcessors } }

\* the flow ids and the flow-refs of the interfaces of two interleaved calls
PairIds == { <<"a">>, <<"-">> }
PairProcessors == { Processor("flow-ref", t) : t \in PairIds }

\* interfaces of n plain flows that carry m flow-refs between them
PairInterfacesOf(n, m) ==
    { [kind |-> "obj",
       flows |-> [k \in 1..n |-> Flow(ids[k], FALSE, None, owned(ps, o, k))]] :
        ids \in [1..n -> PairIds], ps \in [1..m -> PairProcessors], o \in Owners(n, m) }

\* the interfaces given to two interleaved calls: flows and flow-refs
\* together at most MaxPairSize
PairInterfaces ==
    UNION { PairInterfacesOf(nm[1], nm[2]) :
              nm \in { x \in (1..MaxPairSize) \X (0..MaxPairSize) :
                         x[1] + x[2] <= MaxPairSize } }

\* the flow ids (two of them normalize to "f__") and the processors (to a
\* known flow, to a flow known by its normalized id, to an unknown flow) of the
\* interfaces checked for the order of their output
OrderIds == { <<"a">>, <<"-">>, <<"_">> }
OrderProcessors == { Processor("flow-ref", t) : t \in { <<"a">>, <<"-">>, <<"z">> } }

\* interfaces of n plain flows that carry m of these processors between them
OrderInterfacesOf(n, m) ==
    { [kind |-> "obj",
       flows |-> [k \in 1..n |-> Flow(ids[k], FALSE, None, owned(ps, o, k))]] :
        ids \in [1..n -> OrderIds], ps \in [1..m -> OrderProcessors], o \in Owners(n, m) }

\* flows and processors together at most MaxOrderSize
OrderInterfaces ==
    UNION { OrderInterfacesOf(nm[1], nm[2]) :
              nm \in { x \in (1..MaxOrderSize) \X (0..MaxOrderSize) :
                         x[1] + x[2] <= MaxOrderSize } }

\* the output directories the calls are given
Out == <<"o","u","t">>
Docs == <<"d","o","c","s">>
OutputDirs == { Out, Docs }

\* the interfaces run with each output directory: absent, one flow, and two
\* flows with one processor
DirInterfaces ==
    AbsentInterfaces \cup EdgeInterfacesOf(1, 0) \cup EdgeInterfacesOf(2, 1)

\* the characters of the enumerated id strings
IdAlphabet == {"a", "Z", "1", "_", " ", "!", EAcute}

Flow1 == <<"1","F","l","o","w">>
MyFlow == <<"M","y"," ","F","l","o","w","!">>

IdStrings == {None, Flow1, MyFlow} \cup SeqsUpTo(IdAlphabet, MaxLen)

\* the characters of the enumerated labels: the seven characters
\* _escape_text replaces, a letter and a space
LabelAlphabet == {"a", " ", "\"", "[", "]", "<", ">", "&", "\\"}

Labels == {None} \cup SeqsUpTo(LabelAlphabet, MaxLen)

---------------------------------------------------------------------------
(* Specifications *)

\* call 1 is about to be made on an interface of `itfs` with an output
\* directory of `dirs`; call 2 is not made
InitCalls(itfs, dirs) ==
    /\ interface \in { [c \in Calls |-> IF c = 1 THEN itf ELSE NoInterface] : itf \in itfs }
    /\ output_dir \in { [c \in Calls |-> IF c = 1 THEN d ELSE NoOutputDir] : d \in dirs }
    /\ pc = [c \in Calls |-> IF c = 1 THEN "idle" ELSE "off"]
    /\ caller = [c \in Calls |-> "nobody"]
    /\ nodes = [c \in Calls |-> {}]
    /\ links = [c \in Calls |-> {}]
    /\ flow_references = [c \in Calls |-> <<>>]
    /\ mermaid_diagram = [c \in Calls |-> <<>>]
    /\ result = [c \in Calls |-> NoResult]
    /\ flow_data = [c \in Calls |-> NoFlowData]
    /\ paths = [c \in Calls |-> NoPaths]
    /\ fs = EmptyDisk
    /\ runs = [c \in Calls |-> 0]
    /\ prev = [c \in Calls |-> [result |-> NoResult, flow_data |-> NoFlowData,
                                paths |-> NoPaths, fs |-> EmptyDisk]]
    /\ id_str = None
    /\ sanitized_out = None
    /\ text_str = None
    /\ escaped_out = None

Init == InitCalls(Interfaces, {Out})

Step(c) ==
    \/ generate_flow_visualization(c)
    \/ generate_visualization(c)
    \/ Begin(c)
    \/ NodeLoop(c)
    \/ LinkLoop(c)
    \/ Return(c)
    \/ Makedirs(c)
    \/ WriteMermaid(c)
    \/ BuildFlowData(c)
    \/ WriteD3(c)
    \/ ReturnPaths(c)

Next == \E c \in Calls : Step(c)

Spec == Init /\ [][Next]_vars

\* the pipeline run up to MaxRuns times on the same interface
NextTwice == \E c \in Calls : Step(c) \/ Again(c)

SpecTwice == Init /\ [][NextTwice]_vars

\* the pipeline run on the four-flow collection
InitEndToEnd == InitCalls(EndToEndInterfaces, {Out})

SpecEndToEnd == InitEndToEnd /\ [][Next]_vars

\* the pipeline run on malformed collections
InitMalformed == InitCalls(MalformedInterfaces, {Out})

SpecMalformed == InitMalformed /\ [][Next]_vars

\* the pipeline run on the interfaces checked for the order of their output
InitOrder == InitCalls(OrderInterfaces, {Out})

SpecOrder == InitOrder /\ [][Next]_vars

\* the pipeline run with each of the output directories
InitDirs == InitCalls(DirInterfaces, OutputDirs)

SpecDirs == InitDirs /\ [][Next]_vars

\* two diagram-generation calls, for different interfaces, interleaved
InitPair ==
    /\ interface \in { f \in [Calls -> PairInterfaces] : f[1] # f[2] }
    /\ output_dir = [c \in Calls |-> NoOutputDir]
    /\ pc = [c \in Calls |-> "idle"]
    /\ caller = [c \in Calls |-> "nobody"]
    /\ nodes = [c \in Calls |-> {}]
    /\ links = [c \in Calls |-> {}]
    /\ flow_references = [c \in Calls |-> <<>>]
    /\ mermaid_diagram = [c \in Calls |-> <<>>]
    /\ result = [c \in Calls |-> NoResult]
    /\ flow_data = [c \in Calls |-> NoFlowData]
    /\ paths = [c \in Calls |-> NoPaths]
    /\ fs = EmptyDisk
    /\ runs = [c \in Calls |-> 0]
    /\ prev = [c \in Calls |-> [result |-> NoResult, flow_data |-> NoFlowData,
                                paths |-> NoPaths, fs |-> EmptyDisk]]
    /\ id_str = None
    /\ sanitized_out = None
    /\ text_str = None
    /\ escaped_out = None

\* the steps of a diagram-generation call
NextPair ==
    \E c \in Calls :
        \/ generate_flow_visualization(c)
        \/ Begin(c)
        \/ NodeLoop(c)
        \/ LinkLoop(c)
        \/ Return(c)

SpecPair == InitPair /\ [][NextPair]_vars

\* _sanitize_id applied to one enumerated string
InitSanitize ==
    /\ interface = [c \in Calls |-> NoInterface]
    /\ output_dir = [c \in Calls |-> NoOutputDir]
    /\ pc = [c \in Calls |-> "off"]
    /\ caller = [c \in Calls |-> "nobody"]
    /\ nodes = [c \in Calls |-> {}]
    /\ links = [c \in Calls |-> {}]
    /\ flow_references = [c \in Calls |-> <<>>]
    /\ mermaid_diagram = [c \in Calls |-> <<>>]
    /\ result = [c \in Calls |-> NoResult]
    /\ flow_data = [c \in Calls |-> NoFlowData]
    /\ paths = [c \in Calls |-> NoPaths]
    /\ fs = EmptyDisk
    /\ runs = [c \in Calls |-> 0]
    /\ prev = [c \in Calls |-> [result |-> NoResult, flow_data |-> NoFlowData,
                                paths |-> NoPaths, fs |-> EmptyDisk]]
    /\ id_str \in IdStrings
    /\ sanitized_out = None
    /\ text_str = None
    /\ escaped_out = None

NextSanitize == Sanitize

SpecSanitize == InitSanitize /\ [][NextSanitize]_vars

\* _escape_text applied to one enumerated label
InitEscape ==
    /\ interface = [c \in Calls |-> NoInterface]
    /\ output_dir = [c \in Calls |-> NoOutputDir]
    /\ pc = [c \in Calls |-> "off"]
    /\ caller = [c \in Calls |-> "nobody"]
    /\ nodes = [c \in Calls |-> {}]
    /\ links = [c \in Calls |-> {}]
    /\ flow_references = [c \in Calls |-> <<>>]
    /\ mermaid_diagram = [c \in Calls |-> <<>>]
    /\ result = [c \in Calls |-> NoResult]
    /\ flow_data = [c \in Calls |-> NoFlowData]
    /\ paths = [c \in Calls |-> NoPaths]
    /\ fs = EmptyDisk
    /\ runs = [c \in Calls |-> 0]
    /\ prev = [c \in Calls |-> [result |-> NoResult, flow_data |-> NoFlowData,
                                paths |-> NoPaths, fs |-> EmptyDisk]]
    /\ id_str = None
    /\ sanitized_out = None
    /\ text_str \in Labels
    /\ escaped_out = None

NextEscape == Escape

SpecEscape == InitEscape /\ [][NextEscape]_vars

---------------------------------------------------------------------------
(* Reading a diagram text back *)

Letter == Lower \cup Upper

\* ^[A-Za-z][A-Za-z0-9_]*$
IsIdentifier(s) ==
    /\ s # <<>>
    /\ s[1] \in Letter
    /\ \A k \in 1..Len(s) : s[k] \in Letter \cup Digit \cup {"_"}

StartsWith(s, p) == Len(s) >= Len(p) /\ SubSeq(s, 1, Len(p)) = p

\* the position of the first character of s, from k on, that is in the set
\* stop if `is` is TRUE and outside it if `is` is FALSE; Len(s) + 1 if none
RECURSIVE Scan(_, _, _, _)
Scan(s, k, stop, is) ==
    IF k > Len(s) \/ ((s[k] \in stop) = is) THEN k ELSE Scan(s, k + 1, stop, is)

\* the text cut at its line breaks
RECURSIVE SplitLines(_)
SplitLines(text) ==
    LET k == Scan(text, 1, {NL}, TRUE)
    IN  IF k > Len(text) THEN <<text>>
        ELSE <<SubSeq(text, 1, k - 1)>> \o SplitLines(SubSeq(text, k + 1, Len(text)))

IdChar == Letter \cup Digit \cup {"_"}

\* the length of the longest prefix of s made of identifier characters
IdPrefixLen(s) == Scan(s, 1, IdChar, FALSE) - 1

After(s, n) == SubSeq(s, n + 1, Len(s))

\* a node-declaration line: id[label] or id(label)
IsNodeLine(line) ==
    LET n == IdPrefixLen(line)
    IN  /\ n >= 1
        /\ Len(line) >= n + 2
        /\ \/ line[n + 1] = "[" /\ line[Len(line)] = "]"
           \/ line[n + 1] = "(" /\ line[Len(line)] = ")"
NodeId(line) == SubSeq(line, 1, IdPrefixLen(line))
NodeOpen(line) == line[IdPrefixLen(line) + 1]
NodeLabel(line) == SubSeq(line, IdPrefixLen(line) + 2, Len(line) - 1)

\* a style line: style id fill:...
IsStyleLine(line) ==
    /\ StartsWith(line, StylePrefix)
    /\ LET r == After(line, Len(StylePrefix))
       IN  /\ IdPrefixLen(r) >= 1
           /\ StartsWith(After(r, IdPrefixLen(r)), <<" ","f","i","l","l",":">>)
StyleId(line) ==
    LET r == After(line, Len(StylePrefix)) IN SubSeq(r, 1, IdPrefixLen(r))
StyleFill(line) ==
    LET r == After(line, Len(StylePrefix)) IN After(r, IdPrefixLen(r))

\* an edge line: from --> to
IsEdgeLine(line) ==
    LET n == IdPrefixLen(line)
    IN  /\ n >= 1
        /\ StartsWith(After(line, n), Arrow)
        /\ Len(line) > n + Len(Arrow)
        /\ IdPrefixLen(After(line, n + Len(Arrow))) = Len(line) - n - Len(Arrow)
EdgeFrom(line) == SubSeq(line, 1, IdPrefixLen(line))
EdgeTo(line) == After(line, IdPrefixLen(line) + Len(Arrow))

\* the lines of the diagram text call c returned
DiagramLines(c) == SplitLines(result[c].diagram)

\* generate_flow_diagram has just returned in call c
Returned(c) == result[c] # NoResult /\ pc[c] = after_return(c)

\* the indices of the flows the two loops do not skip (non-empty id)
Kept(flows) == { k \in 1..Len(flows) : hasattr(flows[k], "id") /\ Truthy(flows[k].id) }

Min(S) == CHOOSE x \in S : \A y \in S : x <= y

---------------------------------------------------------------------------
(* Claims *)

\* C1: for every input (a string, the empty string, or None) _sanitize_id
\* returns a string that matches ^[A-Za-z][A-Za-z0-9_]*$, the fallback
\* "unknown" included.
C1_SanitizeYieldsIdentifier ==
    sanitized_out # None => IsIdentifier(sanitized_out)

\* C1 witness: _sanitize_id has been applied to a non-empty string that is
\* no identifier and does not start with an ASCII letter.
C1_Witness ==
    /\ sanitized_out # None
    /\ Truthy(id_str)
    /\ id_str[1] \notin Letter
    /\ ~IsIdentifier(id_str)

\* the substituted text of the reference rule: every character outside
\* [A-Za-z0-9_] replaced by "_"
C2_Substituted(s) ==
    [k \in 1..Len(s) |-> IF s[k] \in Letter \cup Digit \cup {"_"} THEN s[k] ELSE "_"]

\* C2: _sanitize_id equals the reference rule: empty or absent input gives
\* "unknown"; otherwise every character outside [A-Za-z0-9_] is replaced by
\* "_" with the length preserved, and "f_" is prepended exactly when the first
\* character of that text is not a letter; "1Flow" gives "f_1Flow" and
\* "My Flow!" gives "My_Flow_".
C2_SanitizeIsReferenceRule ==
    sanitized_out # None =>
        /\ (id_str = None \/ id_str = <<>>) => sanitized_out = unknown
        /\ (id_str # None /\ id_str # <<>>) =>
              LET sub == C2_Substituted(id_str)
              IN  /\ Len(sub) = Len(id_str)
                  /\ sub[1] \in Letter => sanitized_out = sub
                  /\ sub[1] \notin Letter => sanitized_out = <<"f", "_">> \o sub
        /\ id_str = Flow1 => sanitized_out = <<"f","_","1","F","l","o","w">>
        /\ id_str = MyFlow => sanitized_out = <<"M","y","_","F","l","o","w","_">>

\* C2 witness: _sanitize_id has been applied to "1Flow".
C2_Witness ==
    /\ sanitized_out # None
    /\ id_str = Flow1

\* the flows of call c's interface
FlowsOf(c) == interface[c].flows

\* the first kept flow whose id normalizes to the safeId s
FirstWith(flows, s) == Min({ j \in Kept(flows) : _sanitize_id(flows[j].id) = s })

\* the positions of the node-declaration lines and of the style lines of s
DeclsOf(lines, s) ==
    { p \in 1..Len(lines) : IsNodeLine(lines[p]) /\ NodeId(lines[p]) = s }
StylesOf(lines, s) ==
    { p \in 1..Len(lines) : IsStyleLine(lines[p]) /\ StyleId(lines[p]) = s }

\* C3: the diagram text declares each safeId at most once: when several
\* flows have ids that normalize to the same safeId, exactly one
\* node-declaration line and one style line exist for it, and they are the
\* lines (label, shape, style) of the first such flow in declaration order.
C3_OneNodePerSafeIdFirstWins ==
    \A c \in Calls :
        (Returned(c) /\ ~no_flows(interface[c])) =>
            LET lines == DiagramLines(c)
                flows == FlowsOf(c)
                ids == [p \in 1..Len(lines) |->
                           IF IsNodeLine(lines[p]) THEN NodeId(lines[p]) ELSE <<>>]
            IN  /\ \A p, q \in 1..Len(lines) :
                       (ids[p] # <<>> /\ ids[p] = ids[q]) => p = q
                /\ \A k \in Kept(flows) :
                       LET s == _sanitize_id(flows[k].id)
                           first == flows[FirstWith(flows, s)]
                       IN  /\ Cardinality(DeclsOf(lines, s)) = 1
                           /\ Cardinality(StylesOf(lines, s)) = 1
                           /\ \A p \in DeclsOf(lines, s) :
                                  /\ lines[p] = node_lines(first, s)[1]
                                  /\ NodeLabel(lines[p]) = _escape_text(first.id)
                           /\ \A p \in StylesOf(lines, s) :
                                  lines[p] = node_lines(first, s)[2]

\* C3 witness: a diagram was returned for two flows with different ids that
\* normalize to the same safeId and that are drawn differently.
C3_Witness ==
    \E c \in Calls :
        /\ Returned(c)
        /\ \E j, k \in Kept(FlowsOf(c)) :
               /\ j < k
               /\ FlowsOf(c)[j].id # FlowsOf(c)[k].id
               /\ _sanitize_id(FlowsOf(c)[j].id) = _sanitize_id(FlowsOf(c)[k].id)
               /\ node_style(FlowsOf(c)[j]) # node_style(FlowsOf(c)[k])

\* C4: each directed edge line "from --> to" appears at most once in the
\* diagram text, however many flow-ref processors, of one flow or of flows
\* whose ids normalize to the same safeId, point from that source to that
\* target.
C4_EdgeLinesUnique ==
    \A c \in Calls :
        Returned(c) =>
            LET lines == DiagramLines(c)
            IN  \A p, q \in 1..Len(lines) :
                    (p # q /\ lines[p] = lines[q]) => ~IsEdgeLine(lines[p])

\* the (flow, processor) positions whose flow-ref resolves to the edge e
C4_Pointing(flows, e) ==
    { fp \in (1..Len(flows)) \X (1..MaxSize) :
        /\ fp[1] \in Kept(flows)
        /\ fp[2] <= Len(flows[fp[1]].processors)
        /\ Truthy(ref_flow_name(flows[fp[1]].processors[fp[2]]))
        /\ e = _sanitize_id(flows[fp[1]].id) \o Arrow
                 \o _sanitize_id(ref_flow_name(flows[fp[1]].processors[fp[2]])) }

\* C4 witness: a diagram was returned in which one edge line is pointed to
\* by two flow-ref processors.
C4_Witness ==
    \E c \in Calls :
        /\ Returned(c)
        /\ \E p \in 1..Len(DiagramLines(c)) :
               /\ IsEdgeLine(DiagramLines(c)[p])
               /\ \E x, y \in C4_Pointing(FlowsOf(c), DiagramLines(c)[p]) : x # y

\* the safeIds registered by the first pass
Registered(flows) == { _sanitize_id(flows[k].id) : k \in Kept(flows) }

\* the elements of a list
Elems(seq) == { seq[j] : j \in 1..Len(seq) }

\* the reference-index entry of a flow id, empty if there is none
EntryOf(refs, id) == IF dict_has(refs, id) THEN Elems(dict_get(refs, id)) ELSE {}

\* the (flow, processor) positions of flow-refs whose normalized target is
\* not registered
C5_Unknown(flows) ==
    { fp \in (1..Len(flows)) \X (1..MaxSize) :
        /\ fp[1] \in Kept(flows)
        /\ fp[2] <= Len(flows[fp[1]].processors)
        /\ Truthy(ref_flow_name(flows[fp[1]].processors[fp[2]]))
        /\ _sanitize_id(ref_flow_name(flows[fp[1]].processors[fp[2]]))
               \notin Registered(flows) }

\* C5: when a flow-ref processor of a flow names a target whose normalized
\* id is not the safeId of a flow registered in the first pass, no edge line
\* is emitted for it, no node is declared for it, and the reference-index
\* entry of that flow does not contain that target.
C5_UnknownTargetDropped ==
    \A c \in Calls :
        (Returned(c) /\ ~no_flows(interface[c])) =>
            LET lines == DiagramLines(c)
                flows == FlowsOf(c)
            IN  \A fp \in C5_Unknown(flows) :
                    LET name == ref_flow_name(flows[fp[1]].processors[fp[2]])
                        target == _sanitize_id(name)
                    IN  /\ \A p \in 1..Len(lines) :
                               IsEdgeLine(lines[p]) => EdgeTo(lines[p]) # target
                        /\ \A p \in 1..Len(lines) :
                               IsNodeLine(lines[p]) => NodeId(lines[p]) # target
                        /\ \A p \in 1..Len(lines) :
                               IsStyleLine(lines[p]) => StyleId(lines[p]) # target
                        /\ name \notin EntryOf(result[c].references, flows[fp[1]].id)

\* C5 witness: a diagram with an edge line was returned for a flow that also
\* refers to an unknown target.
C5_Witness ==
    \E c \in Calls :
        /\ Returned(c)
        /\ \E fp \in C5_Unknown(FlowsOf(c)) :
               \E p \in 1..Len(DiagramLines(c)) :
                   /\ IsEdgeLine(DiagramLines(c)[p])
                   /\ EdgeFrom(DiagramLines(c)[p]) = _sanitize_id(FlowsOf(c)[fp[1]].id)

\* the interface is absent, has no flows attribute, or has no flows
EmptyInput(c) == interface[c].kind # "obj" \/ interface[c].flows = <<>>

NoFlowsLabel == <<"N","o"," ","f","l","o","w","s"," ","f","o","u","n","d">>

\* C6: when the interface is absent, has no flows attribute, or has an empty
\* flow collection, generate_flow_diagram returns (it does not raise) the
\* header plus exactly one "No flows found" node, no edge line, and an empty
\* reference index.
C6_EmptyInputFallback ==
    \A c \in Calls :
        (EmptyInput(c) /\ pc[c] \notin {"off", "idle", "call"}) =>
            /\ result[c] # NoResult
            /\ result[c].references = <<>>
            /\ LET lines == SplitLines(result[c].diagram)
               IN  /\ Len(lines) = 2
                   /\ lines[1] = GraphTD
                   /\ IsNodeLine(lines[2])
                   /\ NodeLabel(lines[2]) = NoFlowsLabel
                   /\ \A p \in 1..Len(lines) : ~IsEdgeLine(lines[p])

\* C6 witness: generate_flow_diagram has returned for an absent interface.
C6_Witness ==
    \E c \in Calls :
        /\ interface[c].kind = "None"
        /\ pc[c] = "done"
        /\ result[c] # NoResult

\* generate_visualization has just built flow_data in call c
GraphBuilt(c) == pc[c] = "write_d3"

\* C8: the artifacts of one generation call are mutually consistent: every
\* link's source and target are indices of nodes of the visual graph's node
\* list, and both endpoints of every edge line of the diagram are safeIds
\* with a node-declaration line earlier in the text.
C8_ArtifactsConsistent ==
    \A c \in Calls :
        /\ GraphBuilt(c) =>
               LET ns == flow_data[c].nodes
                   ls == flow_data[c].links
               IN  \A j \in 1..Len(ls) :
                       /\ \E n \in 1..Len(ns) : ns[n].id = ls[j].source
                       /\ \E n \in 1..Len(ns) : ns[n].id = ls[j].target
                       /\ ls[j].source \in 0..(Len(ns) - 1)
                       /\ ls[j].target \in 0..(Len(ns) - 1)
        /\ Returned(c) =>
               LET lines == DiagramLines(c)
               IN  \A p \in 1..Len(lines) :
                       IsEdgeLine(lines[p]) =>
                           /\ \E q \in 1..(p - 1) :
                                  IsNodeLine(lines[q]) /\ NodeId(lines[q]) = EdgeFrom(lines[p])
                           /\ \E q \in 1..(p - 1) :
                                  IsNodeLine(lines[q]) /\ NodeId(lines[q]) = EdgeTo(lines[p])

\* C8 witness: flow_data with a link was built from a diagram with an edge
\* line between two different nodes.
C8_Witness ==
    \E c \in Calls :
        /\ GraphBuilt(c)
        /\ flow_data[c].links # <<>>
        /\ \E p \in 1..Len(DiagramLines(c)) :
               /\ IsEdgeLine(DiagramLines(c)[p])
               /\ EdgeFrom(DiagramLines(c)[p]) # EdgeTo(DiagramLines(c)[p])

\* C10: a flow marked as a sub-flow is drawn REUSABLE (bracket node,
\* light-blue fill) even if it also has a non-empty source; ENTRY (rounded
\* node, light-green fill) is drawn only for a flow that is no sub-flow and
\* has a non-empty source; every other flow is drawn PLAIN (bracket node,
\* gray fill).
C10_ReusableBeforeEntry ==
    \A c \in Calls :
        (Returned(c) /\ ~no_flows(interface[c])) =>
            LET lines == DiagramLines(c)
                flows == FlowsOf(c)
            IN  \A k \in Kept(flows) :
                    LET s == _sanitize_id(flows[k].id)
                        marked == "is_subflow" \notin flows[k].absent /\ flows[k].is_subflow
                        sourced == /\ "source" \notin flows[k].absent
                                   /\ flows[k].source # None
                                   /\ flows[k].source # <<>>
                    IN  k = FirstWith(flows, s) =>
                            /\ DeclsOf(lines, s) # {} /\ StylesOf(lines, s) # {}
                            /\ \A p \in DeclsOf(lines, s) :
                                   /\ marked => NodeOpen(lines[p]) = "["
                                   /\ (~marked /\ sourced) => NodeOpen(lines[p]) = "("
                                   /\ (~marked /\ ~sourced) => NodeOpen(lines[p]) = "["
                            /\ \A p \in StylesOf(lines, s) :
                                   /\ marked => StyleFill(lines[p]) = SubflowStyle
                                   /\ (~marked /\ sourced) => StyleFill(lines[p]) = SourceStyle
                                   /\ (~marked /\ ~sourced) => StyleFill(lines[p]) = RegularStyle

\* C10 witness: a diagram was returned that draws a flow which is marked as
\* a sub-flow and has a non-empty source.
C10_Witness ==
    \E c \in Calls :
        /\ Returned(c)
        /\ \E k \in Kept(FlowsOf(c)) :
               /\ k = FirstWith(FlowsOf(c), _sanitize_id(FlowsOf(c)[k].id))
               /\ FlowsOf(c)[k].is_subflow
               /\ Truthy(FlowsOf(c)[k].source)

\* C7: for the collection [A (entry, invokes B), B (plain, invokes C),
\* C (sub-flow), D (plain)] the pipeline yields 4 node declarations, exactly
\* the edge lines A --> B and B --> C, the reference index {A:[B], B:[C]},
\* and a visual graph with 4 nodes typed source, flow, subflow, flow and the
\* 2 links 0->1 and 1->2.
C7_EndToEndScenario ==
    \A c \in Calls :
        /\ Returned(c) =>
               LET lines == DiagramLines(c)
               IN  /\ Cardinality({ p \in 1..Len(lines) : IsNodeLine(lines[p]) }) = 4
                   /\ SelectSeq(lines, IsEdgeLine)
                          = << <<"A">> \o Arrow \o <<"B">>, <<"B">> \o Arrow \o <<"C">> >>
                   /\ result[c].references
                          = << [key |-> <<"A">>, value |-> << <<"B">> >>],
                               [key |-> <<"B">>, value |-> << <<"C">> >>] >>
        /\ GraphBuilt(c) =>
               /\ [n \in 1..Len(flow_data[c].nodes) |-> flow_data[c].nodes[n].type]
                      = <<"source", "flow", "subflow", "flow">>
               /\ flow_data[c].links
                      = << [source |-> 0, target |-> 1], [source |-> 1, target |-> 2] >>

\* C9: running the pipeline twice on the same unmodified flow collection
\* yields the same diagram text, the same reference index and the same
\* visual graph (same nodes and links in the same order).
C9_SecondRunIdentical ==
    \A c \in Calls :
        (pc[c] = "done" /\ runs[c] >= 2) =>
            /\ result[c].diagram = prev[c].result.diagram
            /\ result[c].references = prev[c].result.references
            /\ flow_data[c] = prev[c].flow_data

\* C9 witness: generate_visualization has completed a second run on an
\* interface whose diagram has an edge line and whose graph has a link.
C9_Witness ==
    \E c \in Calls :
        /\ pc[c] = "done"
        /\ runs[c] = 2
        /\ caller[c] = "generate_visualization"
        /\ flow_data[c].links # <<>>
        /\ \E p \in 1..Len(SplitLines(result[c].diagram)) :
               IsEdgeLine(SplitLines(result[c].diagram)[p])

\* the category a style line shows
CategoryOf(line) ==
    IF StyleFill(line) = SubflowStyle THEN "REUSABLE"
    ELSE IF StyleFill(line) = SourceStyle THEN "ENTRY"
    ELSE "PLAIN"

\* the node type string that goes with a category
TypeOf(category) ==
    IF category = "REUSABLE" THEN "subflow"
    ELSE IF category = "ENTRY" THEN "source"
    ELSE "flow"

\* C11: for every flow that has a diagram node, the category used to draw
\* that node and the type string of the flow's visual-graph node agree:
\* REUSABLE with "subflow", ENTRY with "source", PLAIN with "flow", also for a
\* flow that is marked sub-flow and has a non-empty source.
C11_CategoryAgreesWithType ==
    \A c \in Calls :
        (GraphBuilt(c) /\ ~no_flows(interface[c])) =>
            LET lines == DiagramLines(c)
                flows == FlowsOf(c)
            IN  \A k \in Kept(flows) :
                    LET s == _sanitize_id(flows[k].id)
                    IN  k = FirstWith(flows, s) =>
                            \A p \in StylesOf(lines, s) :
                                flow_data[c].nodes[k].type = TypeOf(CategoryOf(lines[p]))

\* the ids of the flows of a collection
IdsOf(flows) == { flows[k].id : k \in { j \in 1..Len(flows) : hasattr(flows[j], "id") } }

\* C12: the reference index returned to the caller maps original flow ids to
\* original flow ids: every key is the id of a flow of the input collection
\* and every listed target is the id of a flow of the input collection.
C12_IndexOverOriginalIds ==
    \A c \in Calls :
        (Returned(c) /\ ~no_flows(interface[c])) =>
            LET refs == result[c].references
                ids == IdsOf(FlowsOf(c))
            IN  \A j \in 1..Len(refs) :
                    /\ refs[j].key \in ids
                    /\ \A t \in Elems(refs[j].value) : t \in ids

\* C13: no flow collection makes the pipeline (generate_flow_diagram and the
\* in-memory part of generate_visualization) raise: an absent interface,
\* flows without id, flows whose processors attribute is missing or None, and
\* processors without type, config or name all degrade to defaults.
C13_NeverRaises ==
    \A c \in Calls : pc[c] # "raised"

\* the paths of the two files of call c
MermaidPath(c) == os_path_join(output_dir[c], static_flow_diagram_mmd)
D3Path(c) == os_path_join(output_dir[c], static_flow_data_json)

\* the diagram file of call c is on disk with the whole diagram text
DiagramOnDisk(c) ==
    /\ dict_has(fs.files, MermaidPath(c))
    /\ dict_get(fs.files, MermaidPath(c)) = result[c].diagram

\* C14: in generate_visualization an I/O failure (directory creation,
\* diagram-file write or graph-file write) is the outcome of the call, with no
\* retry and no rollback: the steps run in the order mkdir, diagram file,
\* graph file; nothing runs after the failing step (no paths are returned and
\* no further step is taken); and a diagram file already written stays on disk
\* when the write of the graph file fails.
C14_IoFailurePropagates ==
    /\ [](\A c \in Calls :
            /\ dict_has(fs.files, MermaidPath(c)) =>
                   os_path_join(output_dir[c], static) \in fs.dirs
            /\ dict_has(fs.files, D3Path(c)) => DiagramOnDisk(c)
            /\ pc[c] = "io_error" => paths[c] = NoPaths)
    /\ [][\A c \in Calls :
            /\ pc[c] = "io_error" => UNCHANGED vars
            /\ (pc[c] = "makedirs" /\ pc'[c] = "io_error") => fs' = fs
            /\ (pc[c] = "write_mermaid" /\ pc'[c] = "io_error") =>
                   /\ fs'.dirs = fs.dirs
                   /\ ~dict_has(fs'.files, D3Path(c))
            /\ (pc[c] = "write_d3" /\ pc'[c] = "io_error") =>
                   /\ DiagramOnDisk(c)
                   /\ DiagramOnDisk(c)'
                   /\ fs'.dirs = fs.dirs]_vars

\* C14 witness: the call ended in the error outcome with the whole diagram
\* file on disk, that is, the write of the graph file failed.
C14_Witness ==
    \E c \in Calls :
        /\ pc[c] = "io_error"
        /\ DiagramOnDisk(c)

\* os.makedirs of call c returns without error
MakedirsSucceeds(c) == Makedirs(c) /\ pc'[c] = "write_mermaid"

\* C15: generate_visualization is safe to call repeatedly: a second call with
\* the same interface and output directory can pass the directory creation
\* when the directory and the files already exist, leaves the two files with
\* the contents they had after the first call, and returns the same paths.
C15_SecondCallSameFiles ==
    \A c \in Calls :
        /\ (pc[c] = "makedirs" /\ os_path_join(output_dir[c], static) \in fs.dirs) =>
               ENABLED MakedirsSucceeds(c)
        /\ (pc[c] = "done" /\ runs[c] >= 2 /\ caller[c] = "generate_visualization") =>
               /\ dict_has(prev[c].fs.files, MermaidPath(c))
               /\ dict_has(prev[c].fs.files, D3Path(c))
               /\ dict_get(fs.files, MermaidPath(c))
                      = dict_get(prev[c].fs.files, MermaidPath(c))
               /\ dict_get(fs.files, D3Path(c)) = dict_get(prev[c].fs.files, D3Path(c))
               /\ fs = prev[c].fs
               /\ paths[c] = prev[c].paths
               /\ paths[c] # NoPaths

\* C15 witness: a second generate_visualization call has returned for an
\* interface with flows, the directory and both files having existed before it.
C15_Witness ==
    \E c \in Calls :
        /\ pc[c] = "done"
        /\ runs[c] = 2
        /\ caller[c] = "generate_visualization"
        /\ ~no_flows(interface[c])
        /\ os_path_join(output_dir[c], static) \in prev[c].fs.dirs
        /\ dict_has(prev[c].fs.files, MermaidPath(c))
        /\ dict_has(prev[c].fs.files, D3Path(c))

\* generate_visualization has returned in call c
VisualizationDone(c) == pc[c] = "done" /\ caller[c] = "generate_visualization"

flow_diagram_mmd == <<"f","l","o","w","_","d","i","a","g","r","a","m",".","m","m","d">>
flow_data_json == <<"f","l","o","w","_","d","a","t","a",".","j","s","o","n">>

\* C16: after a successful generate_visualization call the diagram file
\* holds exactly the diagram text generate_flow_diagram returns for the same
\* interface, the graph file holds an object with "nodes" of {id, name, type}
\* and "links" of {source, target}, and the returned paths are the relative
\* paths static/flow_diagram.mmd and static/flow_data.json whatever the output
\* directory is.
C16_FilesAndPaths ==
    \A c \in Calls :
        VisualizationDone(c) =>
            /\ dict_has(fs.files, os_path_join(output_dir[c], os_path_join(static, flow_diagram_mmd)))
            /\ dict_get(fs.files, os_path_join(output_dir[c], os_path_join(static, flow_diagram_mmd)))
                   = generate_flow_diagram(interface[c]).diagram
            /\ dict_has(fs.files, os_path_join(output_dir[c], os_path_join(static, flow_data_json)))
            /\ LET doc == dict_get(fs.files,
                                   os_path_join(output_dir[c], os_path_join(static, flow_data_json)))
               IN  /\ DOMAIN doc = {"nodes", "links"}
                   /\ \A n \in 1..Len(doc.nodes) :
                          /\ DOMAIN doc.nodes[n] = {"id", "name", "type"}
                          /\ doc.nodes[n].id \in Nat
                          /\ doc.nodes[n].type \in {"flow", "subflow", "source"}
                   /\ \A j \in 1..Len(doc.links) :
                          /\ DOMAIN doc.links[j] = {"source", "target"}
                          /\ doc.links[j].source \in Nat
                          /\ doc.links[j].target \in Nat
            /\ paths[c] = [mermaid |-> os_path_join(static, flow_diagram_mmd),
                           d3 |-> os_path_join(static, flow_data_json)]

\* C16 witness: generate_visualization has returned, with the output
\* directory "docs", for an interface whose graph has a link.
C16_Witness ==
    \E c \in Calls :
        /\ VisualizationDone(c)
        /\ output_dir[c] = Docs
        /\ flow_data[c].links # <<>>

\* the locals of generate_flow_diagram in call c
LocalsOf(c) == <<nodes[c], links[c], mermaid_diagram[c], flow_references[c]>>

\* C17: two diagram-generation calls for different interfaces, interleaved
\* in any order, each return the diagram text and the reference index they
\* return when run alone; the node-seen set, the edge-seen set, the line list
\* and the reference index belong to one call, and a step of one call changes
\* none of them in the other call.
C17_InterleavedAsAlone ==
    /\ [](\A c \in Calls :
            Returned(c) => result[c] = generate_flow_diagram(interface[c]))
    /\ [][\A c, d \in Calls :
            (c # d /\ pc'[c] # pc[c]) => LocalsOf(d)' = LocalsOf(d)]_vars

\* C17 witness: call 1 has returned its diagram while call 2, whose
\* interface registers a safeId that call 1 registered too, is between its
\* two loops.
C17_Witness ==
    /\ Returned(1)
    /\ pc[2] = "links"
    /\ interface[1] # interface[2]
    /\ nodes[1] \cap nodes[2] # {}
    /\ links[1] # {}

\* the flows that register a node in the first pass, in registration order:
\* the first flow of each distinct safeId among the flows with a non-empty id
RegisteredOrder(flows) ==
    SelectSeq([k \in 1..Len(flows) |-> k],
              LAMBDA k : /\ k \in Kept(flows)
                         /\ k = FirstWith(flows, _sanitize_id(flows[k].id)))

\* C18: the visual graph contains exactly the nodes registered in the first
\* pass (one per distinct safeId among the flows with a non-empty id), and
\* each node's integer id is its zero-based position in registration order.
C18_GraphNodesAreRegisteredNodes ==
    \A c \in Calls :
        (GraphBuilt(c) /\ ~no_flows(interface[c])) =>
            LET reg == RegisteredOrder(FlowsOf(c))
                ns == flow_data[c].nodes
            IN  /\ Len(ns) = Len(reg)
                /\ \A j \in 1..Len(reg) :
                       /\ ns[j].id = j - 1
                       /\ ns[j].name = FlowsOf(c)[reg[j]].id

\* the first non-empty of (config.name, name) of a processor
FirstNonEmptyName(processor) ==
    LET structured == IF "config" \notin processor.absent /\ processor.config.hasname
                      THEN processor.config.name ELSE None
        flat == IF "name" \notin processor.absent THEN processor.name ELSE None
    IN  IF Truthy(structured) THEN structured ELSE flat

\* the processor is an object whose kind tag is 'flow-ref'
IsInvoke(processor) ==
    processor.shape = "obj" /\ "type" \notin processor.absent /\ processor.type = "flow-ref"

\* C19: for a processor whose kind tag is 'flow-ref' the target name is the
\* first non-empty of (config.name, name): when config.name is present but
\* empty or None and the flat name is non-empty, the flat name is used, and a
\* reference to a registered flow is resolved (its edge line is in the diagram).
C19_FirstNonEmptyNameWins ==
    \A c \in Calls :
        (Returned(c) /\ ~no_flows(interface[c])) =>
            LET lines == DiagramLines(c)
                flows == FlowsOf(c)
            IN  \A k \in Kept(flows) :
                    "processors" \notin flows[k].absent =>
                        \A j \in 1..Len(flows[k].processors) :
                            LET processor == flows[k].processors[j]
                                name == FirstNonEmptyName(processor)
                            IN  (/\ IsInvoke(processor)
                                 /\ Truthy(name)
                                 /\ _sanitize_id(name) \in Registered(flows)) =>
                                    \E p \in 1..Len(lines) :
                                        lines[p] = _sanitize_id(flows[k].id) \o Arrow
                                                       \o _sanitize_id(name)

\* nothing is left of the label once the double quotes are removed: the
\* label is absent, empty, or made only of double-quote characters
NothingLeft(label) ==
    label = None \/ \A k \in 1..Len(label) : label[k] = "\""

\* C20: for every label, whenever the text left after escaping is empty (an
\* absent label, an empty label, or a label made only of double-quote
\* characters), the display label is "Unnamed Flow".
C20_EmptyLabelFallback ==
    (escaped_out # None /\ NothingLeft(text_str)) => escaped_out = UnnamedFlow

\* what the escaping rule makes of one character
C21_EscapedChar(ch) ==
    IF ch = "\"" THEN <<>>
    ELSE IF ch \in {"[", "<"} THEN <<"(">>
    ELSE IF ch \in {"]", ">"} THEN <<")">>
    ELSE IF ch = "&" THEN <<"+">>
    ELSE IF ch = "\\" THEN <<"/">>
    ELSE <<ch>>

\* the rule applied to a label character by character
RECURSIVE C21_Escaped(_)
C21_Escaped(label) ==
    IF label = <<>> THEN <<>>
    ELSE C21_EscapedChar(Head(label)) \o C21_Escaped(Tail(label))

\* C21: _escape_text removes the double quotes and replaces "[" by "(", "]"
\* by ")", "<" by "(", ">" by ")", "&" by "+" and the backslash by "/"; for
\* every non-empty input the result contains none of the characters
\* " [ ] < > & \ and every other character is kept, in its place.
C21_EscapeRule ==
    (escaped_out # None /\ Truthy(text_str)) =>
        /\ escaped_out = C21_Escaped(text_str)
        /\ \A k \in 1..Len(escaped_out) :
               escaped_out[k] \notin {"\"", "[", "]", "<", ">", "&", "\\"}

\* C21 witness: _escape_text has been applied to a label with a bracket, a
\* backslash and a letter between them.
C21_Witness ==
    /\ escaped_out # None
    /\ text_str = <<"[", "a", "\\">>

\* C22: for a non-empty flow collection the diagram text is ordered: the
\* first line is the header "graph TD"; then the node lines in flow
\* declaration order, each node-declaration line immediately followed by the
\* style line of the same safeId; then all edge lines, so that no edge line
\* precedes a node or style line.
C22_DiagramOrdered ==
    \A c \in Calls :
        (Returned(c) /\ ~no_flows(interface[c])) =>
            LET lines == DiagramLines(c)
                flows == FlowsOf(c)
                reg == RegisteredOrder(flows)
                n == Len(reg)
            IN  /\ lines[1] = GraphTD
                /\ Len(lines) >= 2 * n + 1
                /\ \A j \in 1..n :
                       /\ IsNodeLine(lines[2 * j])
                       /\ NodeId(lines[2 * j]) = _sanitize_id(flows[reg[j]].id)
                       /\ IsStyleLine(lines[2 * j + 1])
                       /\ StyleId(lines[2 * j + 1]) = _sanitize_id(flows[reg[j]].id)
                /\ \A p \in 1..Len(lines) :
                       IsEdgeLine(lines[p]) <=> p > 2 * n + 1

\* C22 witness: a diagram with two nodes and two edge lines was returned.
C22_Witness ==
    \E c \in Calls :
        /\ Returned(c)
        /\ Len(RegisteredOrder(FlowsOf(c))) = 2
        /\ Len(SelectSeq(DiagramLines(c), IsEdgeLine)) = 2

\* a is b with some elements left out
RECURSIVE IsSubseq(_, _)
IsSubseq(a, b) ==
    IF a = <<>> THEN TRUE
    ELSE IF b = <<>> THEN FALSE
    ELSE IF Head(a) = Head(b) THEN IsSubseq(Tail(a), Tail(b))
    ELSE IsSubseq(a, Tail(b))

\* the names the flow-ref processors of a flow give, in processor order
RefNames(flow) ==
    LET names == [j \in 1..Len(flow.processors) |-> ref_flow_name(flow.processors[j])]
    IN  SelectSeq(names, Truthy)

\* (flow, processor) position x comes before position y
Before(x, y) == x[1] < y[1] \/ (x[1] = y[1] /\ x[2] < y[2])

\* the first (flow, processor) position whose flow-ref resolves to the edge e
FirstPointing(flows, e) ==
    CHOOSE x \in C4_Pointing(flows, e) :
        \A y \in C4_Pointing(flows, e) : x = y \/ Before(x, y)

\* C23: the reference index and the edge lines keep input order: the keys of
\* the reference index appear in flow declaration order, the targets listed
\* for a flow appear in the order of that flow's processors, and the edge
\* lines appear in the diagram in that same (flow, processor) order.
C23_InputOrderKept ==
    \A c \in Calls :
        (Returned(c) /\ ~no_flows(interface[c])) =>
            LET flows == FlowsOf(c)
                refs == result[c].references
                edges == SelectSeq(DiagramLines(c), IsEdgeLine)
            IN  /\ \E f \in [1..Len(refs) -> 1..Len(flows)] :
                       /\ \A j \in 1..Len(refs) : flows[f[j]].id = refs[j].key
                       /\ \A j \in 1..(Len(refs) - 1) : f[j] < f[j + 1]
                /\ \A j \in 1..Len(refs) :
                       \E k \in Kept(flows) :
                           /\ flows[k].id = refs[j].key
                           /\ IsSubseq(refs[j].value, RefNames(flows[k]))
                /\ \A p, q \in 1..Len(edges) :
                       p < q => Before(FirstPointing(flows, edges[p]),
                                       FirstPointing(flows, edges[q]))

\* C23 witness: a diagram with two edge lines was returned for two flows,
\* the second of which has an entry with two different targets.
C23_Witness ==
    \E c \in Calls :
        /\ Returned(c)
        /\ Len(FlowsOf(c)) = 2
        /\ Len(SelectSeq(DiagramLines(c), IsEdgeLine)) = 2
        /\ \E j \in 1..Len(result[c].references) :
               /\ result[c].references[j].key = FlowsOf(c)[2].id
               /\ Len(result[c].references[j].value) = 2
               /\ result[c].references[j].value[1] # result[c].references[j].value[2]

\* C24: in the reference index each flow's list holds a given target at most
\* once, and a resolved reference of a flow (a flow-ref of a flow with a
\* non-empty id whose target is registered) is recorded in that flow's list,
\* also when another flow has already produced an edge to the same target.
C24_RecordedOncePerFlow ==
    \A c \in Calls :
        (Returned(c) /\ ~no_flows(interface[c])) =>
            LET flows == FlowsOf(c)
                refs == result[c].references
            IN  /\ \A j \in 1..Len(refs) :
                       \A x, y \in 1..Len(refs[j].value) :
                           _sanitize_id(refs[j].value[x]) = _sanitize_id(refs[j].value[y])
                               => x = y
                /\ \A k \in Kept(flows) :
                       \A name \in Elems(RefNames(flows[k])) :
                           _sanitize_id(name) \in Registered(flows) =>
                               \E t \in EntryOf(refs, flows[k].id) :
                                   _sanitize_id(t) = _sanitize_id(name)

\* C25: _sanitize_id is idempotent: for every input x,
\* _sanitize_id(_sanitize_id(x)) = _sanitize_id(x), so that a name that is
\* already normalized normalizes to itself.
C25_SanitizeIdempotent ==
    sanitized_out # None => _sanitize_id(sanitized_out) = sanitized_out

\* C25 witness: _sanitize_id has been applied to a string it changes in a
\* character and by the prefix.
C25_Witness ==
    /\ sanitized_out # None
    /\ id_str = <<"1", " ", "a">>
    /\ sanitized_out = <<"f", "_", "1", "_", "a">>

\* every flow has a non-empty id, the safeIds of the flows are pairwise
\* distinct, and every flow-ref that resolves is spelled as the id of a flow
ExactlySpelled(flows) ==
    /\ Kept(flows) = 1..Len(flows)
    /\ \A j, k \in 1..Len(flows) :
           _sanitize_id(flows[j].id) = _sanitize_id(flows[k].id) => j = k
    /\ \A k \in 1..Len(flows) :
           \A name \in Elems(RefNames(flows[k])) :
               _sanitize_id(name) \in Registered(flows) =>
                   \E j \in 1..Len(flows) : flows[j].id = name

\* C26: when every flow has a non-empty id, the safeIds of the flows are
\* pairwise distinct and every flow-ref target is spelled exactly as the id of
\* the flow it resolves to, the visual graph has exactly one link per edge
\* line of the diagram, in the same order, and the source and target indices
\* of the link are the positions of the edge's two flows in the collection.
C26_LinksMatchEdges ==
    \A c \in Calls :
        (GraphBuilt(c) /\ ~no_flows(interface[c]) /\ ExactlySpelled(FlowsOf(c))) =>
            LET flows == FlowsOf(c)
                edges == SelectSeq(DiagramLines(c), IsEdgeLine)
                ls == flow_data[c].links
            IN  /\ Len(ls) = Len(edges)
                /\ \A j \in 1..Len(ls) :
                       /\ ls[j].source \in 0..(Len(flows) - 1)
                       /\ ls[j].target \in 0..(Len(flows) - 1)
                       /\ edges[j] = _sanitize_id(flows[ls[j].source + 1].id) \o Arrow
                                         \o _sanitize_id(flows[ls[j].target + 1].id)

\* C26 witness: the graph was built for such a collection, with two links,
\* one of them between two different flows.
C26_Witness ==
    \E c \in Calls :
        /\ GraphBuilt(c)
        /\ ~no_flows(interface[c])
        /\ ExactlySpelled(FlowsOf(c))
        /\ Len(flow_data[c].links) = 2
        /\ \E j \in 1..2 : flow_data[c].links[j].source # flow_data[c].links[j].target

\* the number of targets over all entries of a reference index
RECURSIVE TotalTargets(_)
TotalTargets(refs) ==
    IF refs = <<>> THEN 0 ELSE Len(Head(refs).value) + TotalTargets(Tail(refs))

\* the flow at position k produced an edge line of the diagram
Contributed(flows, edges, k) ==
    \E p \in 1..Len(edges) : FirstPointing(flows, edges[p])[1] = k

\* the non-empty flow ids of the collection are pairwise distinct
DistinctIds(flows) ==
    \A j, k \in Kept(flows) : flows[j].id = flows[k].id => j = k

\* C27: when the non-empty flow ids of the collection are pairwise distinct,
\* the number of edge lines of the diagram equals the total number of targets
\* over all entries of the reference index, and a flow has a key in the
\* reference index exactly when it contributed at least one edge line; no
\* entry is an empty list.
C27_EdgesCountTargets ==
    \A c \in Calls :
        (Returned(c) /\ ~no_flows(interface[c]) /\ DistinctIds(FlowsOf(c))) =>
            LET flows == FlowsOf(c)
                refs == result[c].references
                edges == SelectSeq(DiagramLines(c), IsEdgeLine)
            IN  /\ Len(edges) = TotalTargets(refs)
                /\ \A k \in Kept(flows) :
                       dict_has(refs, flows[k].id) <=> Contributed(flows, edges, k)
                /\ \A j \in 1..Len(refs) :
                       /\ refs[j].value # <<>>
                       /\ \E k \in Kept(flows) : flows[k].id = refs[j].key

\* C27 witness: a diagram was returned for flows with distinct ids of which
\* one contributed the edge line and another, with a flow-ref to a
\* registered flow, contributed none and has no key.
C27_Witness ==
    \E c \in Calls :
        /\ Returned(c)
        /\ ~no_flows(interface[c])
        /\ DistinctIds(FlowsOf(c))
        /\ Len(SelectSeq(DiagramLines(c), IsEdgeLine)) = 1
        /\ Len(result[c].references) = 1
        /\ \E k \in Kept(FlowsOf(c)) :
               /\ ~dict_has(result[c].references, FlowsOf(c)[k].id)
               /\ \E name \in Elems(RefNames(FlowsOf(c)[k])) :
                      _sanitize_id(name) \in Registered(FlowsOf(c))

\* C28: generate_flow_diagram and generate_visualization leave the input
\* unchanged: no step of a call changes the interface it was given, so the
\* flow collection and each flow's id, source, sub-flow flag and processor
\* list are the same after the call as before it.
C28_InputUnchanged ==
    [][\A c \in Calls : interface'[c] = interface[c]]_vars

\* C28 witness: generate_visualization has run to its end on two flows, one
\* with a flow-ref that became an edge line and a link of the graph.
C28_Witness ==
    \E c \in Calls :
        /\ VisualizationDone(c)
        /\ Len(FlowsOf(c)) = 2
        /\ \E k \in 1..2 : FlowsOf(c)[k].processors # <<>>
        /\ Len(SelectSeq(DiagramLines(c), IsEdgeLine)) = 1
        /\ Len(flow_data[c].links) = 1

\* the interface with the flows of empty or absent id left out
WithoutSkipped(itf) ==
    [itf EXCEPT !.flows = SelectSeq(itf.flows, LAMBDA flow : ~skipped(flow))]

\* C29: a flow whose id is empty or absent contributes nothing to the diagram
\* or the reference index, also when its processors name known flows: every
\* node-declaration, style and edge line belongs to a flow with a non-empty
\* id, no key of the index is an empty or absent id, nothing is registered
\* under the fallback safeId "unknown", and the diagram and the index are
\* those of the collection without such flows.
C29_SkippedFlowContributesNothing ==
    \A c \in Calls :
        (Returned(c) /\ ~no_flows(interface[c])) =>
            LET flows == FlowsOf(c)
                lines == DiagramLines(c)
                refs == result[c].references
            IN  /\ unknown \notin nodes[c]
                /\ \A j \in 1..Len(lines) :
                       /\ IsNodeLine(lines[j]) => NodeId(lines[j]) \in Registered(flows)
                       /\ IsStyleLine(lines[j]) => StyleId(lines[j]) \in Registered(flows)
                       /\ IsEdgeLine(lines[j]) => C4_Pointing(flows, lines[j]) # {}
                /\ \A j \in 1..Len(refs) :
                       /\ Truthy(refs[j].key)
                       /\ \E k \in Kept(flows) : flows[k].id = refs[j].key
                /\ ~no_flows(WithoutSkipped(interface[c])) =>
                       result[c] = generate_flow_diagram(WithoutSkipped(interface[c]))

\* C29 witness: a diagram was returned for a collection whose first flow has
\* an empty or absent id and a flow-ref to the registered second flow; the
\* diagram has the node of the second flow only and the index is empty.
C29_Witness ==
    \E c \in Calls :
        /\ Returned(c)
        /\ ~no_flows(interface[c])
        /\ skipped(FlowsOf(c)[1])
        /\ \E name \in Elems(RefNames(FlowsOf(c)[1])) :
               _sanitize_id(name) \in Registered(FlowsOf(c))
        /\ Len(DiagramLines(c)) = 3
        /\ result[c].references = <<>>

\* the flow at position k has a flow-ref whose name is its own id
SelfReferring(flows, k) ==
    /\ k \in Kept(flows)
    /\ hasattr(flows[k], "processors")
    /\ flows[k].id \in Elems(RefNames(flows[k]))

\* C30: self-references are kept: a flow with a non-empty id x that has a
\* flow-ref naming that same flow yields exactly one edge line 'x --> x', has
\* its own id in its list of the reference index, and gives the graph a link
\* whose source index equals its target index.
C30_SelfReferenceKept ==
    \A c \in Calls :
        (GraphBuilt(c) /\ ~no_flows(interface[c])) =>
            LET flows == FlowsOf(c)
                edges == SelectSeq(DiagramLines(c), IsEdgeLine)
                refs == result[c].references
                ls == flow_data[c].links
            IN  \A k \in 1..Len(flows) :
                    SelfReferring(flows, k) =>
                        LET x == _sanitize_id(flows[k].id)
                        IN  /\ Cardinality({ j \in 1..Len(edges) :
                                               edges[j] = x \o Arrow \o x }) = 1
                            /\ flows[k].id \in EntryOf(refs, flows[k].id)
                            /\ \E j \in 1..Len(ls) :
                                   /\ ls[j].source = ls[j].target
                                   /\ flows[ls[j].source + 1].id = flows[k].id

====
